---- MODULE Spec2Model ----
(***************************************************************************)
(* Model of memosel (packages/memosel/lib/main.ts): the per-instance       *)
(* result cache of createSelector, the key tree of getSelector, and the    *)
(* process-wide cache-removing queue with its single timer.                *)
(*                                                                         *)
(* The event loop is modelled by three queues of pending work: the         *)
(* promise microtasks created by addToCaceRemovingQueue, the setTimeout    *)
(* callbacks armed by startCacheRemovingTask, and the caller's own jobs    *)
(* (calls, clear, family resolution), which may run at any time.           *)
(***************************************************************************)
EXTENDS Integers, Sequences, FiniteSets, TLC

\* ---------------------------------------------------------------- bounds
NumObj == 3        \* distinct primary-input objects (identity)
NumVal == 2        \* distinct values an input function can extract
NumKeys == 2       \* distinct key-tuple elements
MaxKeyLen == 1     \* longest key tuple
MaxSize == 2       \* largest configured cache size
MaxInst == 4       \* selectors ever created (the two default ones included)
MaxTime == 3       \* Date.now() stops advancing here
MaxPending == 2    \* removal entries waiting in microtasks + queue

\* ------------------------------------------------------ program constants
MAX_VALUE == 1000000   \* Number.MAX_VALUE, the expiry of a slot without ttl
DefaultSize == 1       \* let size = 1

Builders == 1..2
Objs == 1..NumObj
Vals == 1..NumVal
Keys == 1..NumKeys
FieldNames == {"a", "b", "c"}

\* A primary input is an object: its identity (oid) and the data the input
\* functions read from it (a).  Object 1 may be passed again after its data
\* was mutated; the other objects are immutable.
Params == {p \in [oid : Objs, a : Vals] : p.oid = 1 \/ p.a = (p.oid % NumVal) + 1}

RECURSIVE TuplesOfLen(_)
TuplesOfLen(n) ==
  IF n = 0 THEN {<<>>}
  ELSE {Append(t, k) : t \in TuplesOfLen(n - 1), k \in Keys}

KeyTuples == UNION {TuplesOfLen(n) : n \in 0..MaxKeyLen}
Paths == KeyTuples \ {<<>>}

\* ---------------------------------------------------------- configuration
\* The builder (use / ttl / size / key / compare / build) only fills in the
\* values below before the first call, so a built selector is modelled by
\* the configuration it was built with.  Builder 1 is the selector under
\* study; builder 2 is another built selector of the same process, which
\* shares the cache-removing queue.
ShortTtl == 1      \* ttl of builder 1 when it has one
LongTtl == ShortTtl + 2   \* ttl of builder 2 when it has one

Base ==
  [keyFn |-> "none", size |-> DefaultSize, ttl |-> 0,
   fields |-> <<"a", "b">>, producers |-> <<>>,
   transform |-> TRUE, compare |-> "strict"]

\* Unkeyed selectors without ttl: every size, and the ways to register
\* input selectors, a result selector and a compare function.
Plain ==
  {[Base EXCEPT !.size = s] : s \in 0..MaxSize}
  \cup {[Base EXCEPT !.fields = <<>>, !.producers = pr, !.transform = tr] :
      pr \in {<<>>, <<"none">>, <<"empty">>}, tr \in BOOLEAN}
  \cup {[Base EXCEPT !.fields = <<"a">>, !.producers = <<"map">>, !.transform = tr] :
      tr \in BOOLEAN}
  \cup {[Base EXCEPT !.compare = "byKind", !.size = s] : s \in 1..MaxSize}

\* Unkeyed selectors with a ttl, and selector factories.
Expiring == {[Base EXCEPT !.ttl = ShortTtl, !.size = s] : s \in 0..1}
Keyed == {[Base EXCEPT !.keyFn = k] : k \in {"default", "custom"}}

Configs1 == Plain \cup Expiring \cup Keyed

\* A selector factory with a ttl.
KeyedExpiring == [Base EXCEPT !.keyFn = "default", !.ttl = ShortTtl]

Configs2 == {[Base EXCEPT !.fields = <<"a">>, !.ttl = LongTtl]}

\* Builder 2 was created but never built nor called.
NotBuilt == [Base EXCEPT !.fields = <<>>, !.transform = FALSE, !.size = 0]

\* The two built selectors share nothing but the cache-removing queue, so
\* the second one is built only next to a first one that has a ttl.
Processes ==
  {c \in [Builders -> Configs1 \cup Configs2 \cup {NotBuilt}] :
     /\ c[1] \in Configs1
     /\ c[2] \in (IF c[1].ttl # 0 /\ c[1].size = 0
                  THEN Configs2 \cup {NotBuilt} ELSE {NotBuilt})}

\* The primary inputs each built selector is called with: all of them for
\* an unkeyed selector without ttl; two objects, one of them mutable, for an
\* expiring selector; two immutable objects for a factory with the default
\* key function; one object for a selector next to a second built selector,
\* for a factory with a key function of its own or with a ttl, and for the
\* second builder.
Inputs(c, b) ==
  IF b = 1
  THEN IF c[1] \in Plain THEN Params
       ELSE IF c[2] # NotBuilt \/ c[1].keyFn = "custom" \/ c[1] = KeyedExpiring
            THEN {p \in Params : p.oid = 2}
            ELSE IF c[1].ttl # 0 THEN {p \in Params : p.oid \in 1..2}
                 ELSE {p \in Params : p.oid \in 2..3}
  ELSE IF c[b] = NotBuilt THEN {} ELSE {p \in Params : p.oid = 3}

\* ---------------------------------------------------------------- values
EmptyMap == [f \in FieldNames |-> 0]            \* {} : every key undefined
NoResult ==                                     \* undefined
  [id |-> 0, inst |-> 0, oid |-> 0, keys |-> <<>>, selected |-> EmptyMap,
   transformed |-> FALSE]
NoEntry == [expiry |-> 0, callback |-> 0]       \* caceRemovingEntry undefined

\* const strictEqual = (a, b) => a === b, or the function given to
\* compare(): (x, y) => x.kind === y.kind, where kind is a property no caller
\* ever writes (the parity of the object's identity).  The stored param is a
\* reference, so a compare function must not read the mutable data a.
strictEqual(x, y) == x.oid = y.oid
equalCompareFn(c, x, y) ==
  IF c.compare = "strict" THEN strictEqual(x, y) ELSE x.oid % 2 = y.oid % 2

\* The input selectors registered with use(name, selector):
\*   a: (param) => param.a        b: (param, ...keys) => keys[0] ?? 1
InputFn(name, p, keys) ==
  IF name = "a" THEN p.a
  ELSE IF keys = <<>> THEN 1 ELSE keys[1]

\* The whole-object selectors registered with use(selector):
\*   "none": () => undefined   "empty": () => ({})   "map": (p) => ({c: p.a})
ProducerFn(kind, p, keys) ==
  IF kind = "map" THEN << <<"c", p.a>> >> ELSE <<>>

RECURSIVE Flatten(_)
Flatten(ss) == IF ss = <<>> THEN <<>> ELSE Head(ss) \o Flatten(Tail(ss))

\* Every assignment nextSelected[key] = value of one recompute pass, in order.
Writes(c, p, keys) ==
  [k \in 1..Len(c.fields) |-> <<c.fields[k], InputFn(c.fields[k], p, keys)>>]
  \o Flatten([k \in 1..Len(c.producers) |-> ProducerFn(c.producers[k], p, keys)])

RECURSIVE NextSelected(_)
NextSelected(ws) ==
  IF ws = <<>> THEN EmptyMap
  ELSE LET w == ws[Len(ws)]
       IN [NextSelected(SubSeq(ws, 1, Len(ws) - 1)) EXCEPT ![w[1]] = w[2]]

\* Mutants of HasChange: every evaluated field counts as a change; only a
\* change of all the fields counts.
HasChange_NoCompare(entry, ws) == ws # <<>>

HasChange_AllFields(entry, ws) ==
  /\ ws # <<>>
  /\ \A k \in 1..Len(ws) :
        \/ ~entry.hasSelected
        \/ ws[k][2] # entry.selected[ws[k][1]]

\* hasChange after both forEach loops
HasChange(entry, ws) ==
  \E k \in 1..Len(ws) :
     \/ ~entry.hasSelected
     \/ ws[k][2] # entry.selected[ws[k][1]]

NewEntry(p) ==
  [param |-> p, expiry |-> 0, hasSelected |-> FALSE,
   selected |-> EmptyMap, result |-> NoResult]

\* Mutant of Find: no slot ever matches.
Find_Never(c, rc, p) == 0

\* resultCache.find((x) => equalCompareFn(x.param, param)): index or 0
Find(c, rc, p) ==
  IF \E k \in 1..Len(rc) : equalCompareFn(c, rc[k].param, p)
  THEN CHOOSE k \in 1..Len(rc) :
         /\ equalCompareFn(c, rc[k].param, p)
         /\ \A j \in 1..(k - 1) : ~equalCompareFn(c, rc[j].param, p)
  ELSE 0

\* Mutants of Insert: nothing is removed; size 0 is taken for the default
\* size.
Insert_NoPop(c, rc, p) == <<NewEntry(p)>> \o rc

Insert_ZeroIsDefault(c, rc, p) ==
  LET u == <<NewEntry(p)>> \o rc
      n == IF c.size = 0 THEN DefaultSize ELSE c.size
  IN IF Len(u) > n THEN SubSeq(u, 1, Len(u) - 1) ELSE u

\* resultCache.unshift(entry); if (size && length > size) resultCache.pop()
Insert(c, rc, p) ==
  LET u == <<NewEntry(p)>> \o rc
  IN IF c.size # 0 /\ Len(u) > c.size THEN SubSeq(u, 1, Len(u) - 1) ELSE u

\* !entry.selected || entry.expiry < now
NeedsRecompute(entry, t) == ~entry.hasSelected \/ entry.expiry < t

\* entry.expiry = ttl ? now + ttl : Number.MAX_VALUE
NewExpiry(c, t) == IF c.ttl # 0 THEN t + c.ttl ELSE MAX_VALUE

\* ------------------------------------------------------- expiry scheduler
\* cacheRemovingQueue.sort((a, b) => a.expiry - b.expiry): a stable sort
RECURSIVE InsertSorted(_, _)
InsertSorted(sorted, e) ==
  IF sorted = <<>> THEN <<e>>
  ELSE IF Head(sorted).expiry <= e.expiry
       THEN <<Head(sorted)>> \o InsertSorted(Tail(sorted), e)
       ELSE <<e>> \o sorted

RECURSIVE SortByExpiry(_)
SortByExpiry(q) ==
  IF q = <<>> THEN <<>>
  ELSE InsertSorted(SortByExpiry(SubSeq(q, 1, Len(q) - 1)), q[Len(q)])

\* Mutant of RunCallback: the result caches of all the selectors go.
RunCallback_All(caches, e) ==
  IF e = NoEntry THEN caches ELSE [j \in DOMAIN caches |-> <<>>]

\* Mutant of RunCallback: only the slots that expired with the entry go.
RunCallback_OnlyExpired(caches, e) ==
  IF e = NoEntry THEN caches
  ELSE LET rc == caches[e.callback]
           RECURSIVE Keep(_)
           Keep(k) ==
             IF k > Len(rc) THEN <<>>
             ELSE (IF rc[k].expiry > e.expiry THEN <<rc[k]>> ELSE <<>>) \o Keep(k + 1)
       IN [caches EXCEPT ![e.callback] = Keep(1)]

\* The callback () => { resultCache.length = 0 } of the selector that
\* registered the entry; caceRemovingEntry?.callback() does nothing when
\* there is no current entry.
RunCallback(caches, e) ==
  IF e = NoEntry THEN caches ELSE [caches EXCEPT ![e.callback] = <<>>]

\* What one invocation of a callback did: the entry it belongs to, the
\* number of slots it dropped, and how many of them were not yet expired.
Fired(caches, e, t) ==
  IF e = NoEntry THEN <<>>
  ELSE LET rc == caches[e.callback]
       IN <<[expiry |-> e.expiry, callback |-> e.callback,
             dropped |-> Len(rc),
             early |-> Cardinality({k \in 1..Len(rc) : rc[k].expiry > t})]>>

\* startCacheRemovingTask and its closure performRemoving work on the
\* scheduler state s = [queue, cur, timers, caches, fired] at time t; a timer
\* is kept as the time at which setTimeout makes it due, and fired lists the
\* callbacks invoked so far, in order.
RECURSIVE startCacheRemovingTask(_, _)
RECURSIVE performRemoving(_, _)

\* Mutant of startCacheRemovingTask: it does not return while the previous
\* task is running.
startCacheRemovingTask_NoGuard(s, t) ==
  IF s.queue = <<>> THEN s
  ELSE LET e == Head(s.queue)
           s1 == [s EXCEPT !.cur = e, !.queue = Tail(s.queue)]
           nextTicks == e.expiry - t
       IN IF nextTicks <= 0 THEN performRemoving(s1, t)
          ELSE [s1 EXCEPT !.timers = Append(@, t + nextTicks)]

startCacheRemovingTask(s, t) ==
  IF s.cur # NoEntry THEN s
  ELSE IF s.queue = <<>> THEN s
  ELSE LET e == Head(s.queue)
           s1 == [s EXCEPT !.cur = e, !.queue = Tail(s.queue)]
           nextTicks == e.expiry - t
       IN IF nextTicks <= 0 THEN performRemoving(s1, t)
          ELSE [s1 EXCEPT !.timers = Append(@, t + nextTicks)]

\* Mutant of performRemoving: it does not start the next task.
performRemoving_NoRestart(s, t) ==
  [s EXCEPT !.caches = RunCallback(s.caches, s.cur), !.cur = NoEntry,
            !.fired = @ \o Fired(s.caches, s.cur, t)]

\* (the state after the callback is bound as a value, s1, so that it is
\* computed once)
performRemoving(s, t) ==
  CHOOSE r \in {startCacheRemovingTask(s1, t) : s1 \in
    {[s EXCEPT !.caches = RunCallback(s.caches, s.cur), !.cur = NoEntry,
               !.fired = @ \o Fired(s.caches, s.cur, t)]}} : TRUE

\* ------------------------------------------------------------------ state
VARIABLES
  cfg,                \* cfg[b]: what builder b was configured with
  now,                \* Date.now()
  selectors,          \* selectors[i]: builder and keys of the i-th createSelector,
                      \* and whether the caller was handed it
  resultCache,        \* resultCache[i]: the result cache of selector i
  selectorCache,      \* selectorCache[b][path]: -1 no node, 0 node, i > 0 node.selector
  microtasks,         \* enqueue(...) closures not run yet
  cacheRemovingQueue,
  caceRemovingEntry,
  timers,             \* pending setTimeout(performRemoving, ...) due times
  resolved,           \* what the last call of a selector factory returned
  last,               \* what the last call of a selector did and returned
  fresh,              \* the calls made in a row on one selector since it was empty
  reaped              \* the callbacks the step just taken invoked, in order

vars == <<cfg, now, selectors, resultCache, selectorCache, microtasks,
          cacheRemovingQueue, caceRemovingEntry, timers, resolved,
          last, fresh, reaped>>

Insts == 1..Len(selectors)
defaultSelector(b) == b      \* const defaultSelector = createSelector([])
defaultKeySelectorFn == 0    \* the function defaultKeySelector, returned as is
NotResolved == -1            \* no selector factory was called yet

NoHist == [valid |-> FALSE, param |-> [oid |-> 1, a |-> 1], result |-> NoResult]
NoLog == [inst |-> 0, log |-> <<>>]
Void == <<[oid |-> 0, a |-> 0]>>   \* the log of calls that were not pairwise different

NoCall ==
  [inst |-> 0, param |-> [oid |-> 1, a |-> 1], result |-> NoResult,
   found |-> FALSE, pass |-> FALSE, expired |-> FALSE, changed |-> FALSE,
   ran |-> FALSE, quiet |-> FALSE, prev |-> NoHist, refill |-> FALSE,
   pos |-> 0, live |-> FALSE, threw |-> FALSE]

\* The state after construction, whatever the builders were configured with.
Start ==
  /\ now = 0
  /\ selectors = [b \in Builders |->
                   [builder |-> b, keys |-> <<>>,
                    handed |-> (cfg[b] # NotBuilt /\ cfg[b].keyFn = "none")]]
  /\ resultCache = [b \in Builders |-> <<>>]
  /\ selectorCache = [b \in Builders |-> [path \in Paths |-> -1]]
  /\ microtasks = <<>>
  /\ cacheRemovingQueue = <<>>
  /\ caceRemovingEntry = NoEntry
  /\ timers = <<>>
  /\ resolved = NotResolved
  /\ last = NoCall
  /\ fresh = NoLog
  /\ reaped = <<>>

Init ==
  /\ cfg \in Processes
  /\ Start

\* -------------------------------------------------------------- selector
\* Nothing is runnable on the event loop: no microtask and no due timer.
Quiet == microtasks = <<>> /\ \A k \in 1..Len(timers) : timers[k] > now

\* The object entry.result refers to after a recompute that found a change:
\* resultSelector(entry.selected, ...keys), or entry.selected itself.  Two
\* results are the same object when they are the same record: one made by
\* selector inst for the slot of object oid, told from the earlier ones by id.
NewResult(c, keys, sel, i, oid, id) ==
  [id |-> id, inst |-> i, oid |-> oid, keys |-> keys, selected |-> sel,
   transformed |-> c.transform]

RECURSIVE ResultsOf(_)
ResultsOf(rcs) ==
  IF rcs = <<>> THEN {}
  ELSE {Head(rcs)[k].result : k \in 1..Len(Head(rcs))} \cup ResultsOf(Tail(rcs))

\* The results some slot or the caller still refers to.
Referenced == ResultsOf(resultCache) \cup {last.result, last.prev.result}

\* An id that tells a new object from every object still referred to.
nextId(i, oid) ==
  LET used == {r.id : r \in {x \in Referenced : x.inst = i /\ x.oid = oid}}
  IN CHOOSE n \in 1..(Cardinality(used) + 1) :
       n \notin used /\ \A m \in 1..(n - 1) : m \in used

\* The inputs called in a row on selector i since its cache was empty, kept
\* while they are pairwise different, at most size + 1, and the selector is
\* unkeyed, bounded and without ttl.
LogOf(i) ==
  IF fresh.inst = i THEN fresh.log
  ELSE IF resultCache[i] = <<>> THEN <<>> ELSE Void

Tracked(c, log, p) ==
  IF c.size = 0 \/ c.ttl # 0 \/ c.keyFn # "none" \/ log = Void \/ Len(log) > c.size
  THEN Void
  ELSE IF \E k \in 1..Len(log) : equalCompareFn(c, log[k], p) THEN Void
  ELSE Append(log, p)

\* The previous call, when it was made on selector i and nothing emptied
\* the cache of i since.
PrevOf(i) ==
  IF last.inst = i /\ last.live
  THEN [valid |-> TRUE, param |-> last.param, result |-> last.result]
  ELSE NoHist

\* Mutant of Store: one array for all the selectors.
Store_Shared(caches, i, rc) == [j \in DOMAIN caches |-> rc]

\* let resultCache = [] of createSelector: each selector writes the array it
\* closed over.
Store(caches, i, rc) == [caches EXCEPT ![i] = rc]

\* (param) => { ... return entry.result } of createSelector
Call(i, p) ==
  LET c == cfg[selectors[i].builder]
      keys == selectors[i].keys
      idx == Find(c, resultCache[i], p)
      rc1 == IF idx = 0 THEN Insert(c, resultCache[i], p) ELSE resultCache[i]
      pos == IF idx = 0 THEN 1 ELSE idx
      entry == rc1[pos]
      pass == NeedsRecompute(entry, now)
      ws == Writes(c, p, keys)
      hasChange == pass /\ HasChange(entry, ws)
      e1 == IF pass THEN [entry EXCEPT !.expiry = NewExpiry(c, now)] ELSE entry
      e2 == IF hasChange
            THEN [e1 EXCEPT !.hasSelected = TRUE,
                            !.selected = NextSelected(ws),
                            !.result = NewResult(c, keys, NextSelected(ws), i,
                                                entry.param.oid,
                                                nextId(i, entry.param.oid))]
            ELSE e1
      schedules == pass /\ c.ttl # 0
  IN /\ i \in Insts
     /\ selectors[i].handed
     /\ p \in Inputs(cfg, selectors[i].builder)
     /\ schedules => Len(microtasks) + Len(cacheRemovingQueue) < MaxPending
     /\ resultCache' = Store(resultCache, i, [rc1 EXCEPT ![pos] = e2])
     /\ microtasks' = IF schedules
                      THEN Append(microtasks, [expiry |-> e1.expiry, callback |-> i])
                      ELSE microtasks
     /\ last' = [inst |-> i, param |-> p, result |-> e2.result,
                 found |-> idx # 0, pass |-> pass,
                 expired |-> (idx # 0 /\ entry.hasSelected /\ entry.expiry < now),
                 changed |-> (pass /\ \E k \in 1..Len(ws) :
                                ws[k][2] # entry.selected[ws[k][1]]),
                 ran |-> hasChange, quiet |-> Quiet, prev |-> PrevOf(i),
                 refill |-> (/\ LogOf(i) # Void
                             /\ Len(LogOf(i)) = c.size + 1
                             /\ LogOf(i)[1] = p),
                 pos |-> pos, live |-> TRUE, threw |-> FALSE]
     /\ fresh' = [inst |-> i, log |-> Tracked(c, LogOf(i), p)]
     /\ reaped' = <<>>
     /\ UNCHANGED <<cfg, now, selectors, selectorCache, cacheRemovingQueue,
                    caceRemovingEntry, timers, resolved>>

\* The same call when a function of the caller throws: an input selector
\* (where = "input", at selector(param, ...keys)) or the result selector
\* (where = "result", at resultSelector(entry.selected, ...keys)).  The slot
\* was found or inserted, its expiry renewed and its removal scheduled before
\* any of them runs; entry.selected is assigned before the result selector
\* runs; the exception reaches the caller and nothing is undone.
CallThrows(i, p, where) ==
  LET c == cfg[selectors[i].builder]
      keys == selectors[i].keys
      idx == Find(c, resultCache[i], p)
      rc1 == IF idx = 0 THEN Insert(c, resultCache[i], p) ELSE resultCache[i]
      pos == IF idx = 0 THEN 1 ELSE idx
      entry == rc1[pos]
      pass == NeedsRecompute(entry, now)
      ws == Writes(c, p, keys)
      hasChange == pass /\ HasChange(entry, ws)
      e1 == [entry EXCEPT !.expiry = NewExpiry(c, now)]
      e2 == IF where = "result"
            THEN [e1 EXCEPT !.hasSelected = TRUE, !.selected = NextSelected(ws)]
            ELSE e1
      schedules == c.ttl # 0
  IN /\ i \in Insts
     /\ selectors[i].handed
     /\ p \in Inputs(cfg, selectors[i].builder)
     /\ pass
     /\ IF where = "input"
        THEN c.fields # <<>> \/ c.producers # <<>>
        ELSE hasChange /\ c.transform
     /\ schedules => Len(microtasks) + Len(cacheRemovingQueue) < MaxPending
     /\ resultCache' = Store(resultCache, i, [rc1 EXCEPT ![pos] = e2])
     /\ microtasks' = IF schedules
                      THEN Append(microtasks, [expiry |-> e1.expiry, callback |-> i])
                      ELSE microtasks
     /\ last' = [NoCall EXCEPT !.inst = i, !.param = p, !.found = (idx # 0),
                               !.pass = TRUE, !.ran = (where = "result"),
                               !.pos = pos, !.threw = TRUE]
     /\ fresh' = [inst |-> i, log |-> Void]
     /\ reaped' = <<>>
     /\ UNCHANGED <<cfg, now, selectors, selectorCache, cacheRemovingQueue,
                    caceRemovingEntry, timers, resolved>>

\* clear() { resultCache.length = 0 } of a selector
ClearSelector(i) ==
  /\ i \in Insts
  /\ selectors[i].handed
  /\ resultCache' = [resultCache EXCEPT ![i] = <<>>]
  /\ last' = IF last.inst = i THEN [last EXCEPT !.live = FALSE] ELSE last
  /\ fresh' = IF fresh.inst = i THEN NoLog ELSE fresh
  /\ reaped' = <<>>
  /\ UNCHANGED <<cfg, now, selectors, selectorCache, microtasks,
                 cacheRemovingQueue, caceRemovingEntry, timers, resolved>>

\* Date.now() advances.  The program reads the clock only to set and to
\* compare ttl expiries, so it is left at 0 in a process without any ttl.
Tick ==
  /\ now < MaxTime
  /\ \E b \in Builders : cfg[b].ttl # 0
  /\ now' = now + 1
  /\ reaped' = <<>>
  /\ UNCHANGED <<cfg, selectors, resultCache, selectorCache, microtasks,
                 cacheRemovingQueue, caceRemovingEntry, timers,
                 resolved, last, fresh>>

\* The scheduler state s becomes the state of the program; the bookkeeping
\* on the previous calls of a selector ends when its cache was emptied.
Reaped(s, i) == i \in Insts /\ resultCache[i] # <<>> /\ s.caches[i] = <<>>

Scheduled(s) ==
  /\ cacheRemovingQueue' = s.queue
  /\ caceRemovingEntry' = s.cur
  /\ timers' = s.timers
  /\ resultCache' = s.caches
  /\ last' = IF Reaped(s, last.inst) THEN [last EXCEPT !.live = FALSE] ELSE last
  /\ fresh' = IF Reaped(s, fresh.inst) THEN NoLog ELSE fresh
  /\ reaped' = s.fired

\* The closure given to enqueue() by addToCaceRemovingQueue: push, sort,
\* startCacheRemovingTask.  Promise callbacks run in the order registered.
RunMicrotask ==
  /\ microtasks # <<>>
  /\ microtasks' = Tail(microtasks)
  /\ Scheduled(startCacheRemovingTask(
       [queue |-> SortByExpiry(Append(cacheRemovingQueue, Head(microtasks))),
        cur |-> caceRemovingEntry, timers |-> timers, caches |-> resultCache,
        fired |-> <<>>],
       now))
  /\ UNCHANGED <<cfg, now, selectors, selectorCache, resolved>>

\* A setTimeout callback performRemoving runs: not before its delay has
\* passed, and, being a task, not while a microtask is pending.
TimerFire(k) ==
  /\ k \in 1..Len(timers)
  /\ timers[k] <= now
  /\ microtasks = <<>>
  /\ Scheduled(performRemoving(
       [queue |-> cacheRemovingQueue, cur |-> caceRemovingEntry,
        timers |-> SubSeq(timers, 1, k - 1) \o SubSeq(timers, k + 1, Len(timers)),
        caches |-> resultCache, fired |-> <<>>],
       now))
  /\ UNCHANGED <<cfg, now, selectors, selectorCache, microtasks, resolved>>

\* ---------------------------------------------------------------- key tree
IsPrefix(path, keys) ==
  Len(path) <= Len(keys) /\ path = SubSeq(keys, 1, Len(path))

\* Mutant of getSelector: map.selector is never found again.
getSelector_NoReuse(tree, b, keys, n) ==
  IF keys = <<>>
  THEN [tree |-> tree, selector |-> defaultSelector(b), created |-> FALSE]
  ELSE [tree |-> [path \in Paths |->
                    IF path = keys THEN n + 1
                    ELSE IF IsPrefix(path, keys) /\ tree[path] = -1
                         THEN 0 ELSE tree[path]],
        selector |-> n + 1, created |-> TRUE]

\* getSelector(keys) on the tree of one builder, where n selectors exist:
\* the tree afterwards, the selector returned, and whether it was created.
getSelector(tree, b, keys, n) ==
  IF keys = <<>>
  THEN [tree |-> tree, selector |-> defaultSelector(b), created |-> FALSE]
  ELSE LET walked == [path \in Paths |->
                        IF IsPrefix(path, keys) /\ tree[path] = -1
                        THEN 0 ELSE tree[path]]
       IN IF walked[keys] <= 0
          THEN [tree |-> [walked EXCEPT ![keys] = n + 1],
                selector |-> n + 1, created |-> TRUE]
          ELSE [tree |-> walked, selector |-> walked[keys], created |-> FALSE]

\* keySelector(...args): the arguments themselves by default, or whatever
\* the function given to key() makes of them.
keySelector(c, args) == IF c.keyFn = "default" THEN {args} ELSE KeyTuples

\* (...args) => args.length ? getSelector(keySelector(...args)) : defaultKeySelector
FamilyCall(b, args, keys) ==
  /\ cfg[b].keyFn # "none"
  /\ IF args = <<>>
     THEN /\ resolved' = defaultKeySelectorFn
          /\ UNCHANGED <<selectors, resultCache, selectorCache>>
     ELSE LET r == getSelector(selectorCache[b], b, keys, Len(selectors))
          IN /\ keys \in keySelector(cfg[b], args)
             /\ r.created => Len(selectors) < MaxInst
             /\ selectorCache' = [selectorCache EXCEPT ![b] = r.tree]
             /\ resolved' = r.selector
             /\ IF r.created
                THEN /\ selectors' = Append(selectors,
                          [builder |-> b, keys |-> keys, handed |-> TRUE])
                     /\ resultCache' = Append(resultCache, <<>>)
                ELSE /\ selectors' = [selectors EXCEPT ![r.selector].handed = TRUE]
                     /\ UNCHANGED resultCache
  /\ reaped' = <<>>
  /\ UNCHANGED <<cfg, now, microtasks, cacheRemovingQueue, caceRemovingEntry,
                 timers, last, fresh>>

\* const clear = () => selectorCache.clear(), attached to the factory
FamilyClear(b) ==
  /\ cfg[b].keyFn # "none"
  /\ selectorCache' = [selectorCache EXCEPT ![b] = [path \in Paths |-> -1]]
  /\ reaped' = <<>>
  /\ UNCHANGED <<cfg, now, selectors, resultCache, microtasks,
                 cacheRemovingQueue, caceRemovingEntry, timers, resolved,
                 last, fresh>>

Next ==
  \/ \E i \in 1..MaxInst, p \in Params : Call(i, p)
  \/ \E i \in 1..MaxInst : ClearSelector(i)
  \/ \E b \in Builders, args \in KeyTuples, keys \in KeyTuples : FamilyCall(b, args, keys)
  \/ \E b \in Builders : FamilyClear(b)
  \/ RunMicrotask
  \/ \E k \in 1..MaxPending : TimerFire(k)
  \/ Tick

Spec == Init /\ [][Next]_vars

\* The program with callers' functions that may throw: one unkeyed selector
\* of the default size, with or without ttl.
InitThrow ==
  /\ Init
  /\ cfg[1] \in {Base, [Base EXCEPT !.ttl = ShortTtl]}
  /\ cfg[2] = NotBuilt

NextThrow ==
  \/ \E i \in 1..MaxInst, p \in Params : Call(i, p)
  \/ \E i \in 1..MaxInst, p \in Params, where \in {"input", "result"} :
       CallThrows(i, p, where)
  \/ \E i \in 1..MaxInst : ClearSelector(i)
  \/ RunMicrotask
  \/ \E k \in 1..MaxPending : TimerFire(k)
  \/ Tick

SpecThrow == InitThrow /\ [][NextThrow]_vars

\* The program with two built selectors that have a ttl, the first one
\* unbounded, under an event loop that runs every pending microtask and every
\* due timer, and a clock that advances.  The clock of the model stops at
\* MaxTime, so a call is taken only when the removal it may schedule is due
\* by then.
InitLive ==
  /\ Init
  /\ cfg[1] \in Expiring /\ cfg[1].size = 0
  /\ cfg[2] \in Configs2

CallInTime(i, p) ==
  /\ i \in Insts
  /\ now + cfg[selectors[i].builder].ttl <= MaxTime
  /\ Call(i, p)

NextLive ==
  \/ \E i \in 1..MaxInst, p \in Params : CallInTime(i, p)
  \/ \E i \in 1..MaxInst : ClearSelector(i)
  \/ RunMicrotask
  \/ \E k \in 1..MaxPending : TimerFire(k)
  \/ Tick

\* The program with removals registered by the selectors of a factory, and
\* by two built selectors.
InitReap ==
  /\ cfg \in {[b \in Builders |-> IF b = 1 THEN KeyedExpiring ELSE NotBuilt]}
              \cup {c \in Processes : c[1] \in Expiring /\ c[2] \in Configs2}
  /\ Start

NextReap ==
  \/ \E i \in 1..MaxInst, p \in Params : Call(i, p)
  \/ \E b \in Builders, args \in Paths, keys \in Paths : FamilyCall(b, args, keys)
  \/ \E b \in Builders : FamilyClear(b)
  \/ RunMicrotask
  \/ \E k \in 1..MaxPending : TimerFire(k)
  \/ Tick

SpecReap == InitReap /\ [][NextReap]_vars

SpecLive ==
  /\ InitLive /\ [][NextLive]_vars
  /\ WF_vars(RunMicrotask)
  /\ WF_vars(\E k \in 1..MaxPending : TimerFire(k))
  /\ WF_vars(Tick)

\* ------------------------------------------------------------- properties
ConfigOf(i) == cfg[selectors[i].builder]
Called == last.inst # 0
LastCfg == ConfigOf(last.inst)
LastWrites == Writes(LastCfg, last.param, selectors[last.inst].keys)
PrevWrites == Writes(LastCfg, last.prev.param, selectors[last.inst].keys)

\* The call before the last one was made on the same selector, with the
\* identical object, and nothing emptied the cache in between.
Repeated == last.prev.valid /\ last.prev.param.oid = last.param.oid

\* An unkeyed selector of size 1, without ttl, with the default compare
\* function and with a result selector served the last call.
Memoized ==
  /\ Called
  /\ LastCfg.keyFn = "none" /\ LastCfg.size = 1
  /\ LastCfg.ttl = 0 /\ LastCfg.compare = "strict"
  /\ LastCfg.transform

\* C1: on an unkeyed selector of size 1, without ttl and with the default
\* compare function, every call that repeats the input of the call before
\* returns the identical result without invoking the result selector, and
\* the first call of such a run invokes it (once).
C1_Idempotence ==
  Memoized
  => IF Repeated
     THEN last.result = last.prev.result /\ ~last.ran
     ELSE last.ran

\* The same for the selectors one of whose input selectors yields a field.
Lemma_IdempotenceWithFields ==
  (Memoized /\ LastWrites # <<>>)
  => IF Repeated
     THEN last.result = last.prev.result /\ ~last.ran
     ELSE last.ran /\ last.result.id # 0

C4_TtlExpiry ==
  (Called /\ LastCfg.ttl # 0 /\ last.quiet /\ last.expired)
  => (last.ran /\ (last.prev.valid => last.result # last.prev.result))

\* Two selectors of one factory, made for different key tuples.
Siblings(i, j) ==
  /\ i # j
  /\ selectors[i].builder = selectors[j].builder
  /\ ConfigOf(i).keyFn # "none"
  /\ selectors[i].keys # selectors[j].keys

\* C5: a call made through the selector of one key tuple leaves the result
\* cache of the selector of every other key tuple of the factory as it is,
\* and what it returns was computed by the selector called, with its keys.
C5_KeyedIsolation ==
  [][\A i \in 1..MaxInst, p \in Params :
       Call(i, p) =>
         /\ \A j \in Insts : Siblings(i, j) => resultCache'[j] = resultCache[j]
         /\ last'.result.id # 0 =>
              /\ last'.result.inst = i
              /\ last'.result.keys = selectors[i].keys]_vars

\* C5 happens: the last call missed on the selector of one key tuple while
\* the selector of another key tuple holds a computed slot of another input.
C5_Witness ==
  /\ Called /\ ~last.found /\ last.prev.valid
  /\ \E j \in Insts :
       /\ Siblings(last.inst, j)
       /\ resultCache[j] # <<>>
       /\ resultCache[j][1].result.id # 0
       /\ resultCache[j][1].param # last.param

\* C6: the result cache of a selector configured with a size N > 0 never
\* holds more than N slots.
C6_CapacityBound ==
  \A i \in Insts :
    ConfigOf(i).size > 0 => Len(resultCache[i]) <= ConfigOf(i).size

\* C6 happens: N + 1 different inputs were called on a selector of size
\* N >= 2, whose cache holds N slots.
C6_Witness ==
  /\ Called /\ fresh.inst = last.inst /\ fresh.log # Void
  /\ LastCfg.size >= 2
  /\ Len(fresh.log) = LastCfg.size + 1
  /\ Len(resultCache[last.inst]) = LastCfg.size

\* The inputs of the slots of a cache, first slot first.
ParamsOf(rc) == [k \in 1..Len(rc) |-> rc[k].param]
Reverse(q) == [k \in 1..Len(q) |-> q[Len(q) + 1 - k]]

\* After inputs i1 .. iN+1, pairwise different, were called in this order on
\* an empty cache of size N without ttl, the cache holds iN+1 .. i2.
EvictedFirst ==
  (/\ fresh.inst # 0 /\ fresh.log # Void
   /\ Len(fresh.log) = ConfigOf(fresh.inst).size + 1)
  => ParamsOf(resultCache[fresh.inst]) = Reverse(Tail(fresh.log))

\* C7 as stated: after N + 1 pairwise different inputs were called once
\* each, in order, on a selector of size N >= 1 without ttl, the slots of
\* all but the first are in the cache, and a following call with the first
\* is a miss that invokes the result selector.
C7_EvictionOrder ==
  /\ EvictedFirst
  /\ (Called /\ last.refill /\ LastCfg.transform) => (~last.found /\ last.ran)

\* The same for the selectors one of whose input selectors yields a field.
Lemma_EvictionOrderWithFields ==
  /\ EvictedFirst
  /\ (Called /\ last.refill /\ LastCfg.transform /\ LastWrites # <<>>)
       => (~last.found /\ last.ran)

\* C8 as stated: when a call returns, hit or miss, the slot that served it
\* is the first of the result cache.
C8_MostRecentFirst == Called => last.pos = 1

\* C9: on a selector of size 0 without ttl, a call removes no slot and
\* changes no stored result, leaves a slot for its input, and when it finds
\* a slot for its input it returns the stored result without invoking the
\* result selector.
C9_Unbounded ==
  [][\A i \in 1..MaxInst, p \in Params :
       (Call(i, p) /\ ConfigOf(i).size = 0 /\ ConfigOf(i).ttl = 0) =>
         LET rc == resultCache[i]
             idx == Find(ConfigOf(i), rc, p)
         IN /\ \A k \in 1..Len(rc) :
                 \E j \in 1..Len(resultCache'[i]) :
                    /\ resultCache'[i][j].param = rc[k].param
                    /\ resultCache'[i][j].result = rc[k].result
            /\ Find(ConfigOf(i), resultCache'[i], p) # 0
            /\ idx # 0 => (last'.result = rc[idx].result /\ ~last'.ran)]_vars

\* C9 happens: after three inputs were called on a selector of size 0
\* without ttl, the one called first was called again and hit.
C9_Witness ==
  /\ Called /\ LastCfg.size = 0 /\ LastCfg.ttl = 0
  /\ last.found /\ ~last.ran /\ last.result.id # 0
  /\ last.pos >= 3 /\ last.pos = Len(resultCache[last.inst])

\* C10 as stated: after clear() of a factory, the selector the factory
\* returns for any key tuple, the empty one included, holds no slot.
C10_FamilyClear ==
  [][\A b \in Builders :
       FamilyClear(b) =>
         \A keys \in KeyTuples :
           LET r == getSelector(selectorCache'[b], b, keys, Len(selectors))
           IN r.created \/ resultCache'[r.selector] = <<>>]_vars

C12_ExceptionConsistency ==
  [][\A i \in 1..MaxInst, p \in Params, where \in {"input", "result"} :
       CallThrows(i, p, where) =>
         LET rc == resultCache[i]
             after == resultCache'[i]
             idx == Find(ConfigOf(i), after, p)
         IN /\ \A k \in 1..Len(rc) :
                 rc[k].hasSelected => \E j \in 1..Len(after) : after[j] = rc[k]
            /\ idx # 0 =>
                 /\ NeedsRecompute(after[idx], now)
                 /\ HasChange(after[idx], Writes(ConfigOf(i), p, selectors[i].keys))]_vars

\* C13: at most one setTimeout of the cache-removing task is pending, and it
\* is pending exactly while an entry was taken from the queue and not yet
\* fired, for the expiry of that entry.
C13_SingleTimer ==
  /\ Len(timers) <= 1
  /\ timers = <<>> <=> caceRemovingEntry = NoEntry
  /\ timers # <<>> => timers[1] = caceRemovingEntry.expiry

\* C13 happens: one timer is pending while an entry of another selector
\* waits in the queue and a third entry waits for its microtask.
C13_Witness ==
  /\ Len(timers) = 1
  /\ cacheRemovingQueue # <<>> /\ microtasks # <<>>
  /\ \E k \in 1..Len(cacheRemovingQueue) :
       cacheRemovingQueue[k].callback # caceRemovingEntry.callback

\* A step of the scheduler: a microtask or a timer callback ran.
SchedulerStep == RunMicrotask \/ \E k \in 1..MaxPending : TimerFire(k)

\* The entries the scheduler knows before a step: the queue, the one pushed
\* by the step when it is a microtask, and the one taken from the queue.
KnownEntries ==
  cacheRemovingQueue
  \o (IF microtasks' # microtasks THEN <<Head(microtasks)>> ELSE <<>>)
  \o (IF caceRemovingEntry = NoEntry THEN <<>> ELSE <<caceRemovingEntry>>)

\* C14 as stated: when a step of the scheduler invokes a callback, no entry
\* the scheduler knows and has not fired has an earlier expiry; the
\* callbacks of one step are invoked in the order of their expiries.
C14_SoonestFirst ==
  [][(SchedulerStep /\ reaped' # <<>>) =>
       /\ \A j \in 1..Len(KnownEntries) :
            KnownEntries[j].expiry >= reaped'[1].expiry
       /\ \A k \in 1..Len(reaped'), j \in 1..Len(reaped') :
            j < k => reaped'[j].expiry <= reaped'[k].expiry]_vars

\* The entries a selector can register, and those registered and not fired.
Entries == [expiry : 1..MaxTime, callback : Builders]
Pending ==
  microtasks \o cacheRemovingQueue
  \o (IF caceRemovingEntry = NoEntry THEN <<>> ELSE <<caceRemovingEntry>>)
Count(q, e) ==
  Cardinality({k \in 1..Len(q) : q[k].expiry = e.expiry /\ q[k].callback = e.callback})
Registered ==
  IF Len(microtasks') > Len(microtasks)
  THEN <<microtasks'[Len(microtasks')]>> ELSE <<>>

\* C15: an entry that is registered and not fired is eventually fired; and
\* at every step each entry that was pending or is registered by the step
\* is afterwards either pending or fired by the step, once: none is lost,
\* none fires twice, and a fired one is no longer in the scheduler.
C15_ReapLiveness ==
  /\ \A e \in Entries : (Count(Pending, e) > 0) ~> (Count(reaped, e) > 0)
  /\ [][\A e \in Entries :
          Count(Pending', e) + Count(reaped', e)
            = Count(Pending, e) + Count(Registered, e)]_vars

\* C15 happens: the callback of an entry was invoked on a cache that had
\* been cleared since, while other entries are still in the scheduler.
C15_Witness ==
  /\ reaped # <<>> /\ reaped[1].dropped = 0
  /\ caceRemovingEntry # NoEntry /\ cacheRemovingQueue # <<>>

\* C16: after a step of the scheduler, the result cache of the selector of
\* every callback the step invoked is empty, whatever the expiry of its
\* slots; a step whose callbacks all found their cache empty changes no
\* result cache.
C16_CacheWideReap ==
  [][SchedulerStep =>
       /\ \A k \in 1..Len(reaped') : resultCache'[reaped'[k].callback] = <<>>
       /\ (\A k \in 1..Len(reaped') : reaped'[k].dropped = 0)
            => resultCache' = resultCache]_vars

\* C16 happens: a callback dropped two slots, one of which had not expired.
C16_Witness ==
  \E k \in 1..Len(reaped) :
    /\ reaped[k].dropped >= 2 /\ reaped[k].early >= 1
    /\ resultCache[reaped[k].callback] = <<>>

\* C17 as stated: a call that finds no stored fields for its input (a new
\* slot, or one that never got fields) invokes the result selector, when
\* there is one, with the fields just evaluated and the keys, and returns
\* what it returns; without a result selector it returns the fields.
C17_FirstComputation ==
  (Called /\ ~last.threw /\ last.pass /\ ~last.expired)
  => /\ last.ran
     /\ last.result.id # 0
     /\ last.result.transformed = LastCfg.transform
     /\ last.result.selected = NextSelected(LastWrites)
     /\ last.result.keys = selectors[last.inst].keys

\* The same for the selectors one of whose input selectors yields a field.
Lemma_FirstComputationWithFields ==
  (Called /\ ~last.threw /\ last.pass /\ ~last.expired /\ LastWrites # <<>>)
  => /\ last.ran
     /\ last.result.id # 0
     /\ last.result.transformed = LastCfg.transform
     /\ last.result.selected = NextSelected(LastWrites)
     /\ last.result.keys = selectors[last.inst].keys

\* C18 as stated: what a call of a selector factory returns is a selector,
\* and it is the default selector of the factory when the key tuple is empty.
C18_EmptyKeyTuple ==
  resolved # NotResolved =>
    /\ resolved \in Insts
    /\ selectors[resolved].keys = <<>> => resolved \in Builders

\* C19: no result cache holds two slots whose inputs are equal under the
\* compare function of the selector.
C19_SlotUniqueness ==
  \A i \in Insts :
    \A k \in 1..Len(resultCache[i]), j \in 1..Len(resultCache[i]) :
      k # j => ~equalCompareFn(ConfigOf(i), resultCache[i][k].param,
                               resultCache[i][j].param)

\* C19 happens: with a compare function other than identity, a call found
\* the slot of another object, equal to its input, in a cache of two slots.
C19_Witness ==
  /\ Called /\ last.found /\ LastCfg.compare # "strict"
  /\ Len(resultCache[last.inst]) >= 2
  /\ resultCache[last.inst][last.pos].param.oid # last.param.oid

\* The queue before a step of the scheduler, with the entry a microtask
\* pushes, sorted.
QueueBefore ==
  SortByExpiry(cacheRemovingQueue
               \o (IF microtasks' # microtasks THEN <<Head(microtasks)>> ELSE <<>>))

\* C20: a step of the scheduler changes the result cache of no selector but
\* those whose callbacks it invoked, changes neither the key trees nor the
\* selectors they hold, and leaves in the queue, in order, every entry but
\* those it took from the head.
C20_ReapFrame ==
  [][SchedulerStep =>
       /\ \A j \in Insts :
            (\A k \in 1..Len(reaped') : reaped'[k].callback # j)
              => resultCache'[j] = resultCache[j]
       /\ selectorCache' = selectorCache
       /\ selectors' = selectors
       /\ \E n \in 0..Len(QueueBefore) :
            cacheRemovingQueue' = SubSeq(QueueBefore, n + 1, Len(QueueBefore))]_vars

\* C20 happens: the callback of a selector that a factory's clear() had
\* detached emptied that selector's cache, while the selector created since
\* for the same key tuple holds a result.
C20_Witness ==
  \E k \in 1..Len(reaped), j \in Insts :
    LET i == reaped[k].callback
    IN /\ reaped[k].dropped >= 1
       /\ j # i
       /\ selectors[j].builder = selectors[i].builder
       /\ selectors[j].keys = selectors[i].keys
       /\ selectors[i].keys # <<>>
       /\ selectorCache[selectors[j].builder][selectors[j].keys] = j
       /\ resultCache[i] = <<>>
       /\ resultCache[j] # <<>> /\ resultCache[j][1].result.id # 0

====
